---- MODULE Spec2Model ----
(***************************************************************************)
(* Model of mcp_audio_server.                                              *)
(*                                                                         *)
(* Part 1: the admission governor and the worker pool of                   *)
(* mcp_audio_server/concurrency.py (with_concurrency_control,              *)
(* run_in_process_pool).  The governor runs on one asyncio event loop: a   *)
(* coroutine runs without interruption between two awaits, so every action *)
(* below is the code between two suspension points of one call.  The       *)
(* REQUEST_TIMEOUT timers are modelled by actions that may fire at any     *)
(* moment while the awaited future is outstanding.                         *)
(***************************************************************************)
EXTENDS Integers, Sequences, FiniteSets, TLC

\* Number of with_concurrency_control calls made in one run of the model.
NumCalls == 4

\* concurrency.py:17,20,21 (environment-configured; small values here).
MAX_WORKERS == 2
MAX_CONCURRENT == 1
MAX_QUEUE_SIZE == 2

Calls == 1..NumCalls

VARIABLES
    pc,      \* position of each call inside with_concurrency_control
    active,  \* _active_requests
    queue,   \* _request_queue: the waiters' futures, named by their call
    fut,     \* state of each call's asyncio.Future (line 111)
    ready,   \* waiters whose future is done and whose coroutine the event
             \* loop has scheduled to resume, in scheduling (FIFO) order
    task,    \* state of each call's work item in the process pool
    pool     \* TRUE once _process_pool exists

\* Part 2, the process pool and its workers (run_in_process_pool).
VARIABLES
    dispatched,  \* number of run_in_process_pool calls made so far
    npools,      \* number of ProcessPoolExecutor objects created so far
    callq,       \* work items submitted and not yet taken by a worker
    wlim,        \* per process: Unborn, or the set of rlimits in force in it
    wrun         \* per process: "idle", or the kind of task it executes

\* Part 3, one call of decode_audio in a worker process.
VARIABLES
    dpc,       \* position of the call inside decode_audio / normalize_audio
    payload,   \* audio_data, the transport-encoded text
    declared,  \* format_type, the format the caller declares
    ffmpeg,    \* what check_ffmpeg_available found
    files,     \* the scratch paths that exist in the scratch directory
    made,      \* the scratch paths this call has created so far
    invoked,   \* the external operations this call has started
    mime,      \* {} or {the type validate_file_type returned}
    info,      \* {} or {what ffprobe reported}
    ff,        \* the ffmpeg child: "none", "running" or "exited"
    ffopened,  \* TRUE once the ffmpeg child has opened its output path
    rc,        \* {} or {the ffmpeg child's exit status}
    result     \* "none", "ok" (samples returned) or the error_code raised

\* Part 4, the result cache (cache.py).
VARIABLES
    redis,   \* "unloaded" before cache.py is imported, then REDIS_AVAILABLE
    cfile,   \* per key: {} or {the cache file's text and st_mtime}
    credis,  \* per key: {} or {the Redis entry's text and expiry time}
    now,     \* time.time()
    nops,    \* number of cache operations made so far
    putAt,   \* per key: {} or {the time of the last save_to_cache call}
    putOk,   \* per key: {} or {the last save_to_cache call that returned
             \* True: its value and time, the value of the successful call
             \* before it, and whether no call on the key came after it}
    prev,    \* the cache operation before the last one
    last     \* the last cache operation and what it returned

\* Part 5, the cache directory under clean_cache.
VARIABLES
    sdir,    \* per path: {} or {the file's st_mtime and st_size}
    sclock,  \* time.time()
    slog     \* what the clean_cache call that has just returned did

\* Part 6, the cache file of one key shared by several server processes.
VARIABLES
    shfile,  \* {} or {the content of the file the path names}
    wopen,   \* per process: TRUE while its save_to_cache has the file open
    woff,    \* per process: the offset of its open file, in chunks
    wval,    \* per process: the value its save_to_cache is writing
    wgone,   \* per process: TRUE if the file it has open was unlinked
    shputs,  \* the values put so far
    shgot    \* what the last get_from_cache returned

\* Part 7, the requests to analyze_chords.
VARIABLES
    nreq,    \* the number of requests received so far
    rstore,  \* the cache: the keys that hold a saved response, with it
    rseen,   \* the bytes and declared formats a cache key was computed for
    resp     \* the last request and the response it was given

\* Part 8, the registry of detectors.
VARIABLES
    detectors,  \* AnalysisRegistry._detectors, in insertion order
    accepted,   \* the (name, detector) pairs of the register calls that
                \* returned
    regn,       \* the number of calls made on the registry
    regout      \* the last call on the registry and what it gave

\* Part 9, the creation of a scratch file.
VARIABLES
    tmpdir,   \* TRUE once the directory TEMP_DIR exists
    tmpfile   \* the last SecureTempFile entered and what became of it

govVars == <<pc, active, queue, fut, ready, task, pool>>
sharedVars == <<shfile, wopen, woff, wval, wgone, shputs, shgot>>
sweepVars == <<sdir, sclock, slog>>
cacheVars == <<redis, cfile, credis, now, nops, putAt, putOk, prev, last>>
poolVars == <<dispatched, npools, callq, wlim, wrun>>
decVars == <<dpc, payload, declared, ffmpeg, files, made, invoked, mime, info,
             ff, ffopened, rc, result>>

reqVars == <<nreq, rstore, rseen, resp>>
regVars == <<detectors, accepted, regn, regout>>
tmpVars == <<tmpdir, tmpfile>>

vars ==
    <<govVars, poolVars, decVars, cacheVars, sweepVars, sharedVars, reqVars,
      regVars, tmpVars>>

Range(s) == {s[i] : i \in 1..Len(s)}

\* list.remove(x): drops the first occurrence of x.
Remove(s, x) == SelectSeq(s, LAMBDA y : y # x)

\* Calls that have returned or raised.
Terminal == {"returned", "failed", "timed_out", "invalid_state",
             "rejected_full", "rejected_timeout"}

\* Work items occupying a pool worker.
Executing == {p \in Calls : task[p] = "executing"}

Init ==
    /\ pc = [p \in Calls |-> "idle"]
    /\ active = 0
    /\ queue = <<>>
    /\ fut = [p \in Calls |-> "none"]
    /\ ready = <<>>
    /\ task = [p \in Calls |-> "none"]
    /\ pool = FALSE

\* Mutant of Admit: the counter saturates at MAX_CONCURRENT, as the value
\* of a semaphore would.
AdmitSaturating(p) ==
    /\ active' = IF active < MAX_CONCURRENT THEN active + 1 ELSE active
    /\ pc' = [pc EXCEPT ![p] = "running"]
    /\ task' = [task EXCEPT ![p] = "pending"]
    /\ pool' = TRUE

\* Lines 123-132: the admission increment, then the dispatch of the task to
\* the (lazily created) process pool under wait_for.
Admit(p) ==
    /\ active' = active + 1
    /\ pc' = [pc EXCEPT ![p] = "running"]
    /\ task' = [task EXCEPT ![p] = "pending"]
    /\ pool' = TRUE

\* Lines 102-124 up to the first await: a call arrives.  atCapacity is the
\* test of line 105 and queueFull the test of line 107.
\* Calls arrive in the order of their names (they are interchangeable).
ArriveWith(p, atCapacity, queueFull) ==
    /\ pc[p] = "idle"
    /\ \A q \in Calls : q < p => pc[q] # "idle"
    /\ IF atCapacity
       THEN IF queueFull
            THEN /\ pc' = [pc EXCEPT ![p] = "rejected_full"]
                 /\ UNCHANGED <<active, queue, fut, ready, task, pool>>
            ELSE /\ queue' = Append(queue, p)
                 /\ fut' = [fut EXCEPT ![p] = "pending"]
                 /\ pc' = [pc EXCEPT ![p] = "queued"]
                 /\ UNCHANGED <<active, ready, task, pool>>
       ELSE /\ Admit(p)
            /\ UNCHANGED <<queue, fut, ready>>

\* Mutants of Arrive: the queue-full test dropped; off by one in the
\* queue-full test; off by one in the capacity test.
ArriveNeverFull(p) ==
    ArriveWith(p, active >= MAX_CONCURRENT, FALSE)

ArriveQueueOffByOne(p) ==
    ArriveWith(p, active >= MAX_CONCURRENT, Len(queue) > MAX_QUEUE_SIZE)

ArriveCapacityOffByOne(p) ==
    ArriveWith(p, active > MAX_CONCURRENT, Len(queue) >= MAX_QUEUE_SIZE)

Arrive(p) ==
    ArriveWith(p, active >= MAX_CONCURRENT, Len(queue) >= MAX_QUEUE_SIZE)

\* Line 116: the REQUEST_TIMEOUT timer of a queued waiter fires.  wait_for
\* cancels the waiter's future at once; the waiter's coroutine (lines
\* 117-121) runs only when the event loop resumes it, so until then the
\* cancelled future is still in _request_queue.
QueueTimeout(p) ==
    /\ pc[p] = "queued"
    /\ fut' = [fut EXCEPT ![p] = "cancelled"]
    /\ pc' = [pc EXCEPT ![p] = "expired"]
    /\ ready' = Append(ready, p)
    /\ UNCHANGED <<active, queue, task, pool>>

\* Line 116: the timer fires after a release has set the waiter's future
\* and before the waiter resumed.  The future cannot be cancelled any more;
\* asyncio.timeout (the wait_for of CPython 3.12 and later) marks the
\* waiting task cancelled, and it resumes with TimeoutError.
LateTimeout(p) ==
    /\ pc[p] = "woken"
    /\ pc' = [pc EXCEPT ![p] = "woken_expired"]
    /\ UNCHANGED <<active, queue, fut, ready, task, pool>>

\* Mutant of Resume: the `raise` of line 121 is missing, so a timed-out
\* waiter falls through to the admission of line 124.
ResumeFallsThrough(p) ==
    /\ ready # <<>>
    /\ p = Head(ready)
    /\ ready' = Tail(ready)
    /\ queue' = IF p \in Range(queue) THEN Remove(queue, p) ELSE queue
    /\ Admit(p)
    /\ UNCHANGED fut

\* Mutant of Resume: lines 119-120 are missing, so a timed-out waiter
\* leaves its future in the queue.
ResumeLeavesFuture(p) ==
    /\ ready # <<>>
    /\ p = Head(ready)
    /\ ready' = Tail(ready)
    /\ IF pc[p] = "woken"
       THEN /\ Admit(p)
            /\ UNCHANGED <<queue, fut>>
       ELSE /\ pc' = [pc EXCEPT ![p] = "rejected_timeout"]
            /\ UNCHANGED <<active, queue, fut, task, pool>>

\* Lines 116-124: the event loop resumes the waiter at the head of its
\* ready queue.  A woken waiter is admitted; a timed-out one removes its
\* future from the queue if it is still there and raises ServerBusy(30).
Resume(p) ==
    /\ ready # <<>>
    /\ p = Head(ready)
    /\ ready' = Tail(ready)
    /\ IF pc[p] = "woken"
       THEN /\ Admit(p)
            /\ UNCHANGED <<queue, fut>>
       ELSE /\ queue' = IF p \in Range(queue) THEN Remove(queue, p) ELSE queue
            /\ pc' = [pc EXCEPT ![p] = "rejected_timeout"]
            /\ UNCHANGED <<active, fut, task, pool>>

\* Lines 150-153: pop(0) and set_result on the popped future, at the end
\* of call p, which ends with `outcome` unless set_result raises:
\* set_result on a cancelled future raises InvalidStateError, which
\* replaces the outcome of p.
WakeNext(p, outcome) ==
    IF queue # <<>>
    THEN /\ queue' = Tail(queue)
         /\ IF fut[Head(queue)] = "pending"
            THEN /\ fut' = [fut EXCEPT ![Head(queue)] = "result"]
                 /\ pc' = [pc EXCEPT ![p] = outcome,
                                     ![Head(queue)] = "woken"]
                 /\ ready' = Append(ready, Head(queue))
            ELSE /\ pc' = [pc EXCEPT ![p] = "invalid_state"]
                 /\ UNCHANGED <<fut, ready>>
    ELSE /\ pc' = [pc EXCEPT ![p] = outcome]
         /\ UNCHANGED <<queue, fut, ready>>

\* Mutant of Release: the decrement sits after the return instead of in
\* the finally block, so the timeout path skips it.
ReleaseOnReturnOnly(p, outcome) ==
    /\ active' = IF outcome = "timed_out" THEN active ELSE active - 1
    /\ WakeNext(p, outcome)

\* Lines 146-153, the finally block of call p: the decrement, then the
\* wake-up of the next waiter.
Release(p, outcome) ==
    /\ active' = active - 1
    /\ WakeNext(p, outcome)

\* Lines 129-140 and 146-153: the task's result or exception reaches the
\* call, which returns or raises it after the finally block.
Return(p) ==
    /\ pc[p] = "running"
    /\ task[p] \in {"done_ok", "done_err"}
    /\ task' = [task EXCEPT ![p] = "none"]
    /\ Release(p, IF task[p] = "done_ok" THEN "returned" ELSE "failed")
    /\ UNCHANGED pool

\* What the timeout of line 129 leaves of the work item (lines 79-80):
\* cancelling the awaited future cancels a work item that no worker has
\* taken (or fails to, when the pool has already moved it to its call
\* queue), and has no effect on a work item a worker is executing.
AfterCancel(t) ==
    CASE t = "pending" -> {"none", "pending"}
      [] t = "executing" -> {"executing"}
      [] OTHER -> {"none"}

\* Lines 129-132, 141-153: the REQUEST_TIMEOUT timer of a running call
\* fires; the call raises TimeoutError after the finally block.
RunTimeout(p) ==
    /\ pc[p] = "running"
    /\ \E t \in AfterCancel(task[p]) : task' = [task EXCEPT ![p] = t]
    /\ Release(p, "timed_out")
    /\ UNCHANGED pool

\* ProcessPoolExecutor(max_workers=MAX_WORKERS), lines 74-75: a free worker
\* takes a submitted work item.
WorkerStart(p) ==
    /\ task[p] = "pending"
    /\ Cardinality(Executing) < MAX_WORKERS
    /\ task' = [task EXCEPT ![p] = "executing"]
    /\ UNCHANGED <<pc, active, queue, fut, ready, pool>>

\* The worker finishes func(*args, **kwargs) with a result or an exception.
\* The result of a work item whose call has already gone is dropped.
WorkerFinish(p) ==
    /\ task[p] = "executing"
    /\ \E t \in IF pc[p] = "running" THEN {"done_ok", "done_err"} ELSE {"none"} :
            task' = [task EXCEPT ![p] = t]
    /\ UNCHANGED <<pc, active, queue, fut, ready, pool>>

\* Lines 79-80: the work item fails before any worker runs it (the pool is
\* broken, or the work item cannot be sent to a worker).
DispatchFail(p) ==
    /\ pc[p] = "running"
    /\ task[p] = "pending"
    /\ task' = [task EXCEPT ![p] = "done_err"]
    /\ UNCHANGED <<pc, active, queue, fut, ready, pool>>

(***************************************************************************)
(* Part 2: the process pool of run_in_process_pool and the resource limits *)
(* of its workers (concurrency.py lines 47-83, security.py lines 37-54,    *)
(* audio_io.py line 221).                                                  *)
(***************************************************************************)

\* Number of run_in_process_pool calls made in one run of the model.
MaxDispatch == 4

\* Number of processes the operating system would let the server start.
MaxProcs == 3

Procs == 1..MaxProcs

\* The tasks main.py dispatches: decode_audio, and the detectors' methods.
Kinds == {"decode", "analysis"}

\* RLIMIT_AS, RLIMIT_CPU, RLIMIT_NOFILE.
Limits == {"mem", "cpu", "fd"}

\* The value of wlim for a process that has not been started.
Unborn == {"unborn"}

\* The worker processes that exist.
Workers == {w \in Procs : wlim[w] # Unborn}

\* A try block of setrlimit calls made in the order `order`: the first call
\* that raises ends the block (the except clause only logs), so the limits
\* in force afterwards are the old ones and those of the calls that
\* succeeded.
AfterSetrlimits(old, order) ==
    {old \cup {order[i] : i \in 1..n} : n \in 0..Len(order)}

\* concurrency.py lines 47-64, the pool's initializer: memory, then CPU.
InitializerLimits == AfterSetrlimits({}, <<"mem", "cpu">>)

\* security.py lines 37-54, called first thing by decode_audio (audio_io.py
\* line 221): memory, CPU, file descriptors.
DecodeLimits(old) == AfterSetrlimits(old, <<"mem", "cpu", "fd">>)

PoolInit ==
    /\ dispatched = 0
    /\ npools = 0
    /\ callq = <<>>
    /\ wlim = [w \in Procs |-> Unborn]
    /\ wrun = [w \in Procs |-> "idle"]

\* Mutant of PoolDispatch: the test of line 73 is missing, so every dispatch
\* makes a new pool.
PoolDispatchAlwaysCreates(k) ==
    /\ dispatched < MaxDispatch
    /\ dispatched' = dispatched + 1
    /\ npools' = npools + 1
    /\ callq' = Append(callq, k)
    /\ UNCHANGED <<wlim, wrun>>

\* Lines 69-80: run_in_process_pool creates the pool if there is none yet
\* and submits the work item.
PoolDispatch(k) ==
    /\ dispatched < MaxDispatch
    /\ dispatched' = dispatched + 1
    /\ npools' = IF npools = 0 THEN 1 ELSE npools
    /\ callq' = Append(callq, k)
    /\ UNCHANGED <<wlim, wrun>>

\* Lines 74-75: a pool starts a worker process while it has fewer than
\* max_workers = MAX_WORKERS of them; the worker runs the initializer
\* apply_resource_limits before it takes any work item.
\* Processes are started in the order of their names.
SpawnWorker(w) ==
    /\ wlim[w] = Unborn
    /\ \A v \in Procs : v < w => wlim[v] # Unborn
    /\ Cardinality(Workers) < npools * MAX_WORKERS
    /\ \E l \in InitializerLimits : wlim' = [wlim EXCEPT ![w] = l]
    /\ UNCHANGED <<dispatched, npools, callq, wrun>>

\* Lines 79-80: an idle worker takes the oldest work item and runs it.
\* decode_audio begins by calling security.apply_resource_limits; the
\* detectors' methods apply nothing.
WorkerTake(w) ==
    /\ wlim[w] # Unborn
    /\ wrun[w] = "idle"
    /\ callq # <<>>
    /\ callq' = Tail(callq)
    /\ wrun' = [wrun EXCEPT ![w] = Head(callq)]
    /\ IF Head(callq) = "decode"
       THEN \E l \in DecodeLimits(wlim[w]) : wlim' = [wlim EXCEPT ![w] = l]
       ELSE UNCHANGED wlim
    /\ UNCHANGED <<dispatched, npools>>

\* The worker finishes its task and is reused.
WorkerDone(w) ==
    /\ wrun[w] # "idle"
    /\ wrun' = [wrun EXCEPT ![w] = "idle"]
    /\ UNCHANGED <<dispatched, npools, callq, wlim>>

(***************************************************************************)
(* Part 3: the decode pipeline (audio_io.decode_audio, normalize_audio,    *)
(* get_audio_info; security.validate_file_type, SecureTempFile).           *)
(*                                                                         *)
(* One step of the model is one blocking operation of the call together    *)
(* with the Python code that follows it up to the next one.  The SIGALRM   *)
(* of time_limit is delivered while the call is blocked in an external     *)
(* operation.  The ffmpeg child is a process of its own: it opens its      *)
(* output path and exits in steps of its own.                              *)
(***************************************************************************)

\* Longest payload text of the model.
MaxPayloadLen == 4

\* audio_io.py:23,24.
MAX_AUDIO_SIZE_MB == 100
MAX_AUDIO_DURATION_SEC == 300

\* audio_io.py:30-37, class AudioDecodeError.
DECODE_FAILED == "DECODING_ERROR"
TIMEOUT == "TIMEOUT_ERROR"
FILE_TOO_LARGE == "FILE_TOO_LARGE"
DURATION_TOO_LONG == "DURATION_TOO_LONG"
UNSUPPORTED_FORMAT == "UNSUPPORTED_FORMAT"
FFMPEG_NOT_FOUND == "FFMPEG_NOT_FOUND"
INVALID_FILE_TYPE == "INVALID_FILE_TYPE"

\* security.py:16-22.
ALLOWED_AUDIO_MIME_TYPES ==
    {"audio/wav", "audio/x-wav", "audio/mpeg", "audio/mp3", "audio/ogg",
     "audio/vorbis", "audio/flac", "audio/aac"}

\* The characters of a payload: "a" stands for a character of the base64
\* alphabet, "=" is the pad character, "!" stands for any other character.
B64Chars == {"a", "=", "!"}

RECURSIVE SeqsUpTo(_, _)
SeqsUpTo(S, n) ==
    IF n = 0 THEN {<<>>}
    ELSE LET shorter == SeqsUpTo(S, n - 1)
         IN  shorter \cup {Append(t, c) : t \in shorter, c \in S}

Payloads == SeqsUpTo(B64Chars, MaxPayloadLen)

\* The formats a caller declares, and the types libmagic reports;
\* "unknown" is what validate_file_type returns when the sniff raises.
Formats == {"wav", "mp3"}
Mimes == {"audio/x-wav", "audio/mpeg", "text/plain", "unknown"}

\* What ffprobe prints in "format": each key is absent ({}) or has a value.
ProbeSizes == {{}, {0}, {MAX_AUDIO_SIZE_MB * 1024 * 1024},
               {MAX_AUDIO_SIZE_MB * 1024 * 1024 + 1}, {600 * 1024 * 1024}}
ProbeDurations == {{}, {0}, {MAX_AUDIO_DURATION_SEC},
                   {MAX_AUDIO_DURATION_SEC + 1}}
ProbeReports == [size : ProbeSizes, duration : ProbeDurations]

\* What the probe can do: print a report, or fail (non-zero exit, output
\* that is not JSON, a value float() or int() rejects).
ProbeOutcomes == {{}} \cup {{r} : r \in ProbeReports}

\* dict.get(key, default) on a key that is absent or present.
Get(v, default) == IF v = {} THEN default ELSE CHOOSE x \in v : TRUE

InputPath == "input"
OutputPath == "output"

\* base64.b64decode(s), validate=False (binascii.a2b_base64, non-strict):
\* characters outside the alphabet are skipped, a pad counts only from the
\* third place of a quad on, a completed pad ends the decoding whatever
\* follows, and input that ends inside a quad raises.  The result is {} if
\* it raises and {the number of bytes decoded} otherwise.
RECURSIVE A2bBase64(_, _, _, _, _)
A2bBase64(s, i, quad, pads, n) ==
    IF i > Len(s) THEN (IF quad # 0 THEN {} ELSE {n})
    ELSE IF s[i] = "=" THEN
        IF quad >= 2 /\ quad + pads + 1 >= 4 THEN {n}
        ELSE A2bBase64(s, i + 1, quad, IF quad >= 2 THEN pads + 1 ELSE pads, n)
    ELSE IF s[i] = "!" THEN A2bBase64(s, i + 1, quad, pads, n)
    ELSE IF quad = 0 THEN A2bBase64(s, i + 1, 1, 0, n)
    ELSE A2bBase64(s, i + 1, (quad + 1) % 4, 0, n + 1)

b64decode(s) == A2bBase64(s, 1, 0, 0, 0)

DecodeInit ==
    /\ dpc = "idle"
    /\ payload = <<>>
    /\ declared = "wav"
    /\ ffmpeg = "unchecked"
    /\ files = {}
    /\ made = {}
    /\ invoked = {}
    /\ mime = {}
    /\ info = {}
    /\ ff = "none"
    /\ ffopened = FALSE
    /\ rc = {}
    /\ result = "none"

\* The call raises code from inside normalize_audio's try block.
RaiseInNormalize(code) ==
    /\ result' = code
    /\ dpc' = "exitNormalize"

\* decode_audio(audio_data, format_type) is called (line 207).
DecodeAudio(s, f) ==
    /\ dpc = "idle"
    /\ payload' = s
    /\ declared' = f
    /\ dpc' = "check"
    /\ UNCHANGED <<ffmpeg, files, made, invoked, mime, info, ff, ffopened,
                   rc, result>>

\* Lines 224-229: check_ffmpeg_available, and the raise if it is absent.
CheckFfmpegWith(found, seen) ==
    /\ dpc = "check"
    /\ ffmpeg' = IF found THEN "found" ELSE "absent"
    /\ IF seen
          THEN dpc' = "tempfile" /\ UNCHANGED result
          ELSE dpc' = "done" /\ result' = FFMPEG_NOT_FOUND
    /\ UNCHANGED <<payload, declared, files, made, invoked, mime, info, ff,
                   ffopened, rc>>

CheckFfmpegUnchecked(found) == CheckFfmpegWith(found, TRUE)

CheckFfmpeg(found) == CheckFfmpegWith(found, found)

\* Line 234: SecureTempFile.__enter__ creates the input scratch file.
EnterInputFile ==
    /\ dpc = "tempfile"
    /\ files' = files \cup {InputPath}
    /\ made' = made \cup {InputPath}
    /\ dpc' = "b64"
    /\ UNCHANGED <<payload, declared, ffmpeg, invoked, mime, info, ff,
                   ffopened, rc, result>>

\* Lines 234, 248-249 and 130: the creation of the input scratch file, the
\* write of the decoded bytes to it, or the creation of the output scratch
\* file raises (FileNotFoundError for a declared format with a path
\* separator, OSError for a full disk).  None of the three sits in a try
\* block with an except clause, so the exception leaves decode_audio as it
\* is.
ScratchFails ==
    /\ dpc \in {"tempfile", "b64", "normalize"}
    /\ dpc = "b64" => b64decode(payload) # {}
    /\ result' = "OSError"
    /\ dpc' = IF dpc = "tempfile" THEN "done" ELSE "exitInput"
    /\ UNCHANGED <<payload, declared, ffmpeg, files, made, invoked, mime,
                   info, ff, ffopened, rc>>

\* Lines 237-249: b64decode, the raise if it fails, else write and flush.
DecodeBase64 ==
    /\ dpc = "b64"
    /\ IF b64decode(payload) = {}
          THEN result' = DECODE_FAILED /\ dpc' = "exitInput"
          ELSE dpc' = "normalize" /\ UNCHANGED result
    /\ UNCHANGED <<payload, declared, ffmpeg, files, made, invoked, mime,
                   info, ff, ffopened, rc>>

\* Lines 128-135: the output SecureTempFile is created and removed again,
\* only its name is kept; time_limit arms the alarm.
EnterNormalize ==
    /\ dpc = "normalize"
    /\ made' = made \cup {OutputPath}
    /\ dpc' = "sniff"
    /\ UNCHANGED <<payload, declared, ffmpeg, files, invoked, mime, info, ff,
                   ffopened, rc, result>>

\* Lines 85-91: validate_file_type and the raise if it says no.  Whatever
\* is raised inside it, the alarm's exception included, comes back as
\* (False, "unknown").
SniffWith(m, valid) ==
    /\ dpc = "sniff"
    /\ invoked' = invoked \cup {"sniff"}
    /\ mime' = {m}
    /\ IF valid
          THEN dpc' = "probe" /\ UNCHANGED result
          ELSE RaiseInNormalize(INVALID_FILE_TYPE)
    /\ UNCHANGED <<payload, declared, ffmpeg, files, made, info, ff,
                   ffopened, rc>>

SniffTrustsDeclared(m) == SniffWith(m, declared \in Formats)

Sniff(m) == SniffWith(m, m \in ALLOWED_AUDIO_MIME_TYPES)

\* Lines 93-122 and 137-153: ffprobe, then the size and duration gates.
ProbeWith(o, tooLarge, tooLong) ==
    /\ dpc = "probe"
    /\ invoked' = invoked \cup {"probe"}
    /\ info' = o
    /\ IF o = {} THEN RaiseInNormalize(DECODE_FAILED)
       ELSE LET r == CHOOSE x \in o : TRUE
            IN  IF tooLarge[r] THEN RaiseInNormalize(FILE_TOO_LARGE)
                ELSE IF tooLong[r] THEN RaiseInNormalize(DURATION_TOO_LONG)
                ELSE dpc' = "popen" /\ UNCHANGED result
    /\ UNCHANGED <<payload, declared, ffmpeg, files, made, mime, ff,
                   ffopened, rc>>

\* Lines 106-107, 113: the values get_audio_info returns.
SizeBytes(r) == Get(r.size, 0)
Duration(r) == Get(r.duration, 0)

\* Line 140: size_mb = size_bytes / (1024 * 1024) > MAX_AUDIO_SIZE_MB.
TooLarge(r) == SizeBytes(r) > MAX_AUDIO_SIZE_MB * 1024 * 1024

\* Line 148.
TooLong(r) == Duration(r) > MAX_AUDIO_DURATION_SEC

ProbeUngated(o) ==
    ProbeWith(o, [r \in ProbeReports |-> FALSE], [r \in ProbeReports |-> FALSE])

Probe(o) ==
    ProbeWith(o, [r \in ProbeReports |-> TooLarge(r)],
                 [r \in ProbeReports |-> TooLong(r)])

\* Lines 156-170: subprocess.Popen starts the ffmpeg child.
Popen ==
    /\ dpc = "popen"
    /\ invoked' = invoked \cup {"transcode"}
    /\ ff' = "running"
    /\ dpc' = "communicate"
    /\ UNCHANGED <<payload, declared, ffmpeg, files, made, mime, info,
                   ffopened, rc, result>>

\* The ffmpeg child creates (-y: or truncates) its output path.
FfmpegOpensOutput ==
    /\ ff = "running"
    /\ ~ffopened
    /\ ffopened' = TRUE
    /\ files' = files \cup {OutputPath}
    /\ UNCHANGED <<dpc, payload, declared, ffmpeg, made, invoked, mime, info,
                   ff, rc, result>>

\* The ffmpeg child exits; with status 0 only after it wrote its output.
FfmpegExits(status) ==
    /\ ff = "running"
    /\ status = 0 => ffopened
    /\ ff' = "exited"
    /\ rc' = {status}
    /\ UNCHANGED <<dpc, payload, declared, ffmpeg, files, made, invoked,
                   mime, info, ffopened, result>>

\* Lines 172-181: communicate() returns once the child has exited.
Communicate ==
    /\ dpc = "communicate"
    /\ ff = "exited"
    /\ IF rc # {0}
          THEN RaiseInNormalize(DECODE_FAILED)
          ELSE dpc' = "load" /\ UNCHANGED result
    /\ UNCHANGED <<payload, declared, ffmpeg, files, made, invoked, mime,
                   info, ff, ffopened, rc>>

\* Lines 184-187 and 191-197: sf.read returns the samples or raises.
Load(readable) ==
    /\ dpc = "load"
    /\ RaiseInNormalize(IF readable THEN "ok" ELSE DECODE_FAILED)
    /\ UNCHANGED <<payload, declared, ffmpeg, files, made, invoked, mime,
                   info, ff, ffopened, rc>>

\* Lines 67-71: the alarm goes off while the call is blocked in ffprobe
\* (subprocess.run kills that child), in communicate() (nothing kills the
\* ffmpeg child) or in sf.read.
Alarm ==
    /\ dpc \in {"probe", "communicate", "load"}
    /\ invoked' = IF dpc = "probe" THEN invoked \cup {"probe"} ELSE invoked
    /\ RaiseInNormalize(TIMEOUT)
    /\ UNCHANGED <<payload, declared, ffmpeg, files, made, mime, info, ff,
                   ffopened, rc>>

\* Lines 198-204: normalize_audio's finally removes the output path if it
\* exists.
ExitNormalize ==
    /\ dpc = "exitNormalize"
    /\ files' = files \ {OutputPath}
    /\ dpc' = "exitInput"
    /\ UNCHANGED <<payload, declared, ffmpeg, made, invoked, mime, info, ff,
                   ffopened, rc, result>>

\* security.py:165-176: SecureTempFile.__exit__ removes the input file.
ExitInputFile ==
    /\ dpc = "exitInput"
    /\ files' = files \ {InputPath}
    /\ dpc' = "done"
    /\ UNCHANGED <<payload, declared, ffmpeg, made, invoked, mime, info, ff,
                   ffopened, rc, result>>

(***************************************************************************)
(* Part 4: the result cache (cache.get_from_cache, save_to_cache).         *)
(*                                                                         *)
(* Neither function awaits anything but _cache_lock, and no holder of the  *)
(* lock awaits while holding it, so on the event loop each call runs from  *)
(* start to end without another coroutine in between: one action each.     *)
(***************************************************************************)

\* Number of cache operations in one run of the model, and the last clock
\* value.
MaxOps == 3
MaxTime == 3

\* cache.py:17 (environment-configured; seconds; a small value here).
DEFAULT_CACHE_TTL == 2

\* One key: no operation of cache.py on one key reads or writes the entry
\* of another.
Keys == {"k1"}
\* The results stored: a value has two fields (think of correlation_id
\* and chords), so that a text can hold the fields of two values.
Firsts == {"x1", "x2"}
Seconds == {"y1", "y2"}
Values == {<<"x1", "y1">>, <<"x2", "y2">>}
Times == 0..MaxTime

\* json.dumps(data) / json.dump(data, f): the text of a value, in the
\* chunks in which it reaches the file.
Dumps(v) == <<"{", v[1], v[2], "}">>

\* json.loads(text) / json.load(f): {the value} of a complete text, {} if
\* the text is not one (JSONDecodeError).
Loads(t) ==
    IF /\ Len(t) = 4
       /\ t[1] = "{" /\ t[2] \in Firsts /\ t[3] \in Seconds /\ t[4] = "}"
       THEN {<<t[2], t[3]>>}
       ELSE {}

\* The first n tokens of a text.
Prefix(t, n) == SubSeq(t, 1, n)

\* No operation yet.
NoOp ==
    [op |-> "none", key |-> "", val |-> {}, ok |-> TRUE, at |-> 0,
     redisRaised |-> FALSE, opened |-> FALSE, wrote |-> 0]

\* What is kept of an operation once another has followed it.
Earlier(o) == [o EXCEPT !.opened = FALSE, !.wrote = 0]

CacheInit ==
    /\ redis = "unloaded"
    /\ cfile = [k \in Keys |-> {}]
    /\ credis = [k \in Keys |-> {}]
    /\ now = 0
    /\ nops = 0
    /\ putAt = [k \in Keys |-> {}]
    /\ putOk = [k \in Keys |-> {}]
    /\ prev = NoOp
    /\ last = NoOp

\* Lines 24-33: the module is imported, with or without MCP_REDIS_URL.
ImportCache(available) ==
    /\ redis = "unloaded"
    /\ redis' = IF available THEN "available" ELSE "off"
    /\ UNCHANGED <<cfile, credis, now, nops, putAt, putOk, prev, last>>

\* Time passes.
Tick ==
    /\ redis # "unloaded"
    /\ now < MaxTime
    /\ now' = now + 1
    /\ UNCHANGED <<redis, cfile, credis, nops, putAt, putOk, prev, last>>

\* The Redis entry of k, if it has not expired (SETEX).
RedisGet(k) == {e \in credis[k] : e.expires > now}

\* get_from_cache(k), lines 75-117.  redisRaises: redis_client.get
\* raises.  Returns {} for None.
GetResult(k, redisRaises) ==
    LET hit == IF redis = "available" /\ ~redisRaises
                  THEN UNION {Loads(e.text) : e \in RedisGet(k)}
                  ELSE {}
        f == CHOOSE e \in cfile[k] : TRUE
    IN  IF hit # {} THEN hit
        ELSE IF cfile[k] = {} THEN {}
        ELSE IF now - f.mtime > DEFAULT_CACHE_TTL THEN {}
        ELSE Loads(f.text)

\* Lines 106-110: the lookup that reaches an expired file removes it.
GetReachesExpiredFile(k, redisRaises) ==
    /\ \/ redis # "available"
       \/ redisRaises
       \/ UNION {Loads(e.text) : e \in RedisGet(k)} = {}
    /\ cfile[k] # {}
    /\ \E e \in cfile[k] : now - e.mtime > DEFAULT_CACHE_TTL

GetFromCacheWith(k, redisRaises, unlinks) ==
    /\ redis # "unloaded"
    /\ nops < MaxOps
    /\ redis = "off" => ~redisRaises
    /\ cfile' = IF unlinks THEN [cfile EXCEPT ![k] = {}] ELSE cfile
    /\ nops' = nops + 1
    /\ prev' = Earlier(last)
    /\ last' = [op |-> "get", key |-> k, val |-> GetResult(k, redisRaises),
                ok |-> TRUE, at |-> now, redisRaised |-> redisRaises,
                opened |-> FALSE, wrote |-> 0]
    /\ UNCHANGED <<redis, credis, now, putAt, putOk>>

GetFromCacheKeepsExpired(k, redisRaises) ==
    GetFromCacheWith(k, redisRaises, FALSE)

GetFromCache(k, redisRaises) ==
    GetFromCacheWith(k, redisRaises, GetReachesExpiredFile(k, redisRaises))

\* save_to_cache(k, v), lines 120-155.  redisRaises: redis_client.setex
\* raises (logged, line 142).  opens: open(path, 'w') succeeds, which
\* truncates the file.  wrote: the number of tokens json.dump put into
\* the file; it raised if that is not the whole text.  reached: the call
\* gets as far as the file write of lines 147-150.
SaveToCacheWith(k, v, redisRaises, opens, wrote, reached) ==
    /\ redis # "unloaded"
    /\ nops < MaxOps
    /\ redis = "off" => ~redisRaises
    /\ ~opens => wrote = 0
    /\ credis' = IF redis = "available" /\ ~redisRaises
                    THEN [credis EXCEPT ![k] =
                            {[text |-> Dumps(v),
                              expires |-> now + DEFAULT_CACHE_TTL]}]
                    ELSE credis
    /\ cfile' = IF reached /\ opens
                   THEN [cfile EXCEPT ![k] =
                           {[text |-> Prefix(Dumps(v), wrote),
                             mtime |-> now]}]
                   ELSE cfile
    /\ nops' = nops + 1
    /\ prev' = Earlier(last)
    /\ last' = [op |-> "put", key |-> k, val |-> {v},
                ok |-> (reached /\ opens /\ wrote = Len(Dumps(v))),
                at |-> now, redisRaised |-> redisRaises,
                opened |-> opens, wrote |-> wrote]
    /\ putAt' = [putAt EXCEPT ![k] = {now}]
    /\ putOk' = [putOk EXCEPT ![k] =
                   IF reached /\ opens /\ wrote = Len(Dumps(v))
                      THEN {[val |-> v, at |-> now, latest |-> TRUE,
                             over |-> {e.val : e \in putOk[k]}]}
                      ELSE {[e EXCEPT !.latest = FALSE] : e \in putOk[k]}]
    /\ UNCHANGED <<redis, now>>

SaveToCacheGivesUp(k, v, redisRaises, opens, wrote) ==
    SaveToCacheWith(k, v, redisRaises, opens, wrote, ~redisRaises)

SaveToCache(k, v, redisRaises, opens, wrote) ==
    SaveToCacheWith(k, v, redisRaises, opens, wrote, TRUE)

\* How many tokens a json.dump can have written.
Written == 0..4

(***************************************************************************)
(* Part 5: the sweep of the cache directory (cache.clean_cache).           *)
(*                                                                         *)
(* clean_cache holds _cache_lock and awaits nothing inside it: one action. *)
(* The files are written by save_to_cache; here only their write time and  *)
(* size matter.  An unlink can fail; clean_cache logs that and goes on.    *)
(***************************************************************************)

\* cache.py:18 (environment-configured; bytes; a small value here).
MAX_CACHE_SIZE == 3

\* The paths of the cache directory and the sizes of the files written.
Paths == {"p1", "p2", "p3"}
Sizes == {1, 2}

\* No clean_cache call has just returned.
NoSweep ==
    [swept |-> FALSE, at |-> 0, before |-> [p \in Paths |-> {}],
     sorted |-> <<>>, failed |-> {}, expired |-> {}, evicted |-> <<>>]

SweepInit ==
    /\ sdir = [p \in Paths |-> {}]
    /\ sclock = 0
    /\ slog = NoSweep

\* save_to_cache writes the file of a key (lines 149-150).
SweepWrite(p, size) ==
    /\ sdir' = [sdir EXCEPT ![p] = {[mtime |-> sclock, size |-> size]}]
    /\ slog' = NoSweep
    /\ UNCHANGED sclock

SweepTick ==
    /\ sclock < MaxTime
    /\ sclock' = sclock + 1
    /\ slog' = NoSweep
    /\ UNCHANGED sdir

Present(d) == {p \in Paths : d[p] # {}}
Stat(d, p) == CHOOSE e \in d[p] : TRUE
Mtime(d, p) == Stat(d, p).mtime
Size(d, p) == Stat(d, p).size

RECURSIVE SumSizes(_, _)
SumSizes(d, P) ==
    IF P = {} THEN 0
    ELSE LET p == CHOOSE x \in P : TRUE
         IN  Size(d, p) + SumSizes(d, P \ {p})

\* Line 178: the files whose age is above the TTL at time t.
ExpiredAt(d, t) == {p \in Present(d) : t - Mtime(d, p) > DEFAULT_CACHE_TTL}

\* Lines 186-187: the results of files.sort(key=mtime) over the orders in
\* which glob can list the files P: every arrangement of P with
\* non-decreasing st_mtime.
SortedLists(d, P) ==
    {q \in [1..Cardinality(P) -> P] :
        /\ \A i, j \in 1..Cardinality(P) : i # j => q[i] # q[j]
        /\ \A i, j \in 1..Cardinality(P) :
              i < j => Mtime(d, q[i]) <= Mtime(d, q[j])}

\* Lines 190-197: the loop over the sorted files.  rest: what is left of
\* the list; total: total_size; stuck: the files whose unlink raises;
\* cap: the size the loop compares total_size with.  The result is the
\* sequence of the files removed.
RECURSIVE EvictLoop(_, _, _, _, _)
EvictLoop(d, rest, total, stuck, cap) ==
    IF ~(total > cap /\ rest # <<>>) THEN <<>>
    ELSE LET p == Head(rest)
         IN  IF p \in stuck
                THEN EvictLoop(d, Tail(rest), total, stuck, cap)
                ELSE <<p>> \o EvictLoop(d, Tail(rest), total - Size(d, p),
                                        stuck, cap)

\* The unlinks the loop attempted on files of stuck.
RECURSIVE EvictFailures(_, _, _, _, _)
EvictFailures(d, rest, total, stuck, cap) ==
    IF ~(total > cap /\ rest # <<>>) THEN {}
    ELSE LET p == Head(rest)
         IN  IF p \in stuck
                THEN {p} \cup EvictFailures(d, Tail(rest), total, stuck, cap)
                ELSE EvictFailures(d, Tail(rest), total - Size(d, p),
                                   stuck, cap)

\* clean_cache(), lines 158-199.  stuck: the files whose unlink raises
\* during this call; sorted: the list after line 187.
CleanCacheWith(stuck, sorted, cap) ==
    LET expired == ExpiredAt(sdir, sclock) \ stuck
        left == Present(sdir) \ expired
        evicted == EvictLoop(sdir, sorted, SumSizes(sdir, left), stuck, cap)
        failed == (ExpiredAt(sdir, sclock) \cap stuck) \cup
                  EvictFailures(sdir, sorted, SumSizes(sdir, left), stuck,
                                cap)
    IN  /\ sorted \in SortedLists(sdir, left)
        /\ sdir' = [p \in Paths |->
                      IF p \in expired \cup Range(evicted) THEN {}
                      ELSE sdir[p]]
        /\ slog' = [swept |-> TRUE, at |-> sclock, before |-> sdir,
                    sorted |-> sorted, failed |-> failed,
                    expired |-> expired, evicted |-> evicted]
        /\ UNCHANGED sclock

CleanCacheBelowCap(stuck, sorted) ==
    CleanCacheWith(stuck, sorted, MAX_CACHE_SIZE - 1)

CleanCache(stuck, sorted) == CleanCacheWith(stuck, sorted, MAX_CACHE_SIZE)

\* The lists clean_cache can have after line 187, whatever was removed.
SweepLists ==
    UNION {SortedLists(sdir, P) : P \in SUBSET Present(sdir)}

(***************************************************************************)
(* Part 6: one cache file and the server processes that share the cache    *)
(* directory.  _cache_lock is an asyncio.Lock: it orders the coroutines of *)
(* one process and no others.  Each process has its own open file with its *)
(* own offset; json.dump reaches the file chunk by chunk.                  *)
(***************************************************************************)

Writers == {"w1", "w2"}

\* A chunk of the file that nothing has written (zero bytes).
Hole == ""

\* write(chunk) at offset i - 1 of a file that holds t.
WriteAt(t, i, chunk) ==
    [j \in 1..(IF i > Len(t) THEN i ELSE Len(t)) |->
        IF j = i THEN chunk ELSE IF j <= Len(t) THEN t[j] ELSE Hole]

SharedInit ==
    /\ shfile = {}
    /\ wopen = [w \in Writers |-> FALSE]
    /\ woff = [w \in Writers |-> 0]
    /\ wval = [w \in Writers |-> <<"x1", "y1">>]
    /\ wgone = [w \in Writers |-> FALSE]
    /\ shputs = {}
    /\ shgot = {}

\* Line 149 in process w: open(cache_path, 'w') creates the file or
\* truncates the one that is there.
SharedOpen(w, v) ==
    /\ ~wopen[w]
    /\ shfile' = {<<>>}
    /\ wopen' = [wopen EXCEPT ![w] = TRUE]
    /\ woff' = [woff EXCEPT ![w] = 0]
    /\ wval' = [wval EXCEPT ![w] = v]
    /\ wgone' = [wgone EXCEPT ![w] = FALSE]
    /\ shputs' = shputs \cup {v}
    /\ UNCHANGED shgot

\* Line 150 in process w: json.dump writes its next chunk at the offset
\* of w's open file.
SharedWrite(w) ==
    /\ wopen[w]
    /\ woff[w] < Len(Dumps(wval[w]))
    /\ woff' = [woff EXCEPT ![w] = woff[w] + 1]
    /\ shfile' = IF wgone[w] THEN shfile
                 ELSE {WriteAt(t, woff[w] + 1, Dumps(wval[w])[woff[w] + 1]) :
                         t \in shfile}
    /\ UNCHANGED <<wopen, wval, wgone, shputs, shgot>>

\* Lines 149-155 in process w: the with block closes the file, after the
\* whole text or after json.dump raised.
SharedClose(w) ==
    /\ wopen[w]
    /\ wopen' = [wopen EXCEPT ![w] = FALSE]
    /\ UNCHANGED <<shfile, woff, wval, wgone, shputs, shgot>>

\* Lines 97-117 in any process: get_from_cache reads the file.
SharedGet ==
    /\ shgot' = UNION {Loads(t) : t \in shfile}
    /\ UNCHANGED <<shfile, wopen, woff, wval, wgone, shputs>>

\* Lines 109, 180, 193 in any process: an expired or evicted file is
\* unlinked; the processes that have it open keep writing to it unseen.
SharedUnlink ==
    /\ shfile # {}
    /\ shfile' = {}
    /\ wgone' = [w \in Writers |-> wgone[w] \/ wopen[w]]
    /\ UNCHANGED <<wopen, woff, wval, shputs, shgot>>

(***************************************************************************)
(* Part 7: one request to analyze_chords from the middleware to the        *)
(* response (main.py lines 124-225 and 313-491, cache.py lines 36-46).     *)
(* The cache is seen through its contract here: a key holds nothing or the *)
(* response saved last under it, and a get may miss.                       *)
(***************************************************************************)

\* Number of requests received in one run of the model.
MaxRequests == 2

\* The audio_data of a request.  The first two are different texts of the
\* same single byte, the third decodes to two bytes, the last is not
\* base64.
AudioData ==
    { <<"a", "a", "=", "=">>, <<"a", "!", "a", "=", "=">>,
      <<"a", "a", "a", "=">>, <<"a">> }

\* request.options: without a "model" entry, asking for the advanced
\* model, or asking for a model the server does not have.
ModelOptions == {{}, {"advanced"}, {"other"}}

Requests ==
    [audio_data : AudioData, format : Formats, options : ModelOptions]

\* The codes decode_audio raises AudioDecodingException with.
DecodeCodes ==
    {DECODE_FAILED, TIMEOUT, FILE_TOO_LARGE, DURATION_TOO_LONG,
     FFMPEG_NOT_FOUND, INVALID_FILE_TYPE}

\* What with_concurrency_control gives the handler: the result of the work,
\* or the ServerBusy of a call rejected at a full queue or timed out in the
\* queue, or asyncio.TimeoutError, or the BrokenProcessPool of a worker
\* killed at its resource limit.
Rejections == {"rejected_full", "rejected_timeout"}
CallFailures == Rejections \cup {"TimeoutError", "BrokenProcessPool"}
DecodeOutcomes == {"ok"} \cup DecodeCodes \cup CallFailures
DetectOutcomes == {"ok", "KeyError"} \cup CallFailures

\* ServerBusy(), concurrency.py line 36: the default retry_after.
DEFAULT_RETRY_AFTER == 60

\* ServerBusy(retry_after=30), concurrency.py line 121.
QUEUE_TIMEOUT_RETRY_AFTER == 30

\* Mutant: the waiter that timed out raises the default ServerBusy().
ServerBusyDefault(rejection) == DEFAULT_RETRY_AFTER

\* The retry_after of the ServerBusy raised at line 108 or at line 121.
ServerBusy(rejection) ==
    IF rejection = "rejected_full" THEN DEFAULT_RETRY_AFTER
    ELSE QUEUE_TIMEOUT_RETRY_AFTER

\* A request on which every step of the handler succeeds and the cache
\* neither returns nor stores anything.
Smooth ==
    [schema |-> TRUE, full |-> FALSE, hit |-> FALSE, decode |-> "ok",
     detect |-> "ok", valid |-> TRUE, saved |-> FALSE]

\* A request that arrives while the governor is at capacity with a full
\* queue: a call to with_concurrency_control would be rejected.
AtFullQueue == [Smooth EXCEPT !.full = TRUE, !.decode = "rejected_full"]

\* What the handler meets on its way: the verdict of validate_payload on
\* the request, the state of the governor, whether get_from_cache returns
\* an entry, how the decode call and the detector calls end, the verdict of
\* validate_payload on the response, and whether save_to_cache stores it.
\* The handler leaves at the first step that fails, so at most one step
\* differs from Smooth.
Meets ==
    {Smooth, [Smooth EXCEPT !.schema = FALSE], [Smooth EXCEPT !.hit = TRUE],
     [Smooth EXCEPT !.valid = FALSE], [Smooth EXCEPT !.saved = TRUE],
     AtFullQueue, [AtFullQueue EXCEPT !.hit = TRUE]}
    \cup {[Smooth EXCEPT !.decode = d] :
             d \in DecodeOutcomes \ {"rejected_full"}}
    \cup {[Smooth EXCEPT !.detect = d] : d \in DetectOutcomes}

\* hashlib.sha256(file_bytes).hexdigest() of the n bytes the one-letter
\* alphabet can encode: a digest computed from the bytes and nothing else.
compute_file_hash(n) == ((n + 1) * 37) % 101

\* The entry the cache holds under a key, if any.
Stored(key) == {e.data : e \in {x \in rstore : x.key = key}}

\* save_to_cache(cache_key, cache_data): the entry replaces the one before.
Save(key, data) ==
    {x \in rstore : x.key # key} \cup {[key |-> key, data |-> data]}

NoResponse ==
    [id |-> 0, model |-> "", status |-> 0, error_code |-> {},
     message |-> FALSE, correlation_id |-> {}, header |-> {},
     model_used |-> {}, cached |-> FALSE, cause |-> "none",
     retry_after |-> {}, hit |-> FALSE, full |-> FALSE, governed |-> FALSE]

RequestInit ==
    /\ nreq = 0
    /\ rstore = {}
    /\ rseen = {}
    /\ resp = NoResponse

\* ChordAnalysisResponse returned by the handler, lines 351-359 and
\* 453-461, with the header the middleware adds at line 145.
Success(id, model, used, cid, cached) ==
    [NoResponse EXCEPT !.id = id, !.model = model, !.status = 200,
                       !.correlation_id = {cid}, !.header = {id},
                       !.model_used = {used}, !.cached = cached]

\* ErrorResponse of an exception handler, lines 176-225, with the header of
\* line 145.
ErrorBody(id, model, status, code, cause) ==
    [NoResponse EXCEPT !.id = id, !.model = model, !.status = status,
                       !.error_code = {code}, !.message = TRUE,
                       !.correlation_id = {id}, !.header = {id},
                       !.cause = cause]

\* HTTPException: the body is {"detail": ...}, with the header of line 145.
Detail(id, model, status, cause) ==
    [NoResponse EXCEPT !.id = id, !.model = model, !.status = status,
                       !.header = {id}, !.cause = cause]

\* Lines 156-172: an exception no handler takes reaches the middleware,
\* which answers itself, without the header.
Internal(id, model, cause) ==
    [NoResponse EXCEPT !.id = id, !.model = model, !.status = 500,
                       !.error_code = {"INTERNAL_ERROR"}, !.message = TRUE,
                       !.correlation_id = {id}, !.cause = cause]

\* ServerBusy and asyncio.TimeoutError have handlers, lines 202-225; the
\* first adds the header Retry-After: str(exc.retry_after).
CallFailed(id, model, failure, phase) ==
    IF failure \in Rejections
    THEN [ErrorBody(id, model, 503, "SERVER_BUSY", failure)
            EXCEPT !.retry_after = {ServerBusy(failure)}]
    ELSE ErrorBody(id, model, 408, "TIMEOUT", "TimeoutError")

\* Lines 378-392: the decode call.  An exception other than the three named
\* at line 388 becomes an HTTPException.
DecodeFailed(id, model, outcome) ==
    IF outcome \in DecodeCodes
    THEN ErrorBody(id, model, 400, outcome, outcome)
    ELSE IF outcome = "BrokenProcessPool"
    THEN Detail(id, model, 400, "killed in decode")
    ELSE CallFailed(id, model, outcome, "decode")

\* Lines 399-418 and 488-491: the detector calls.  KeyError becomes an HTTPException;
\* any other exception leaves the handler.
DetectFailed(id, model, outcome) ==
    IF outcome = "KeyError" THEN Detail(id, model, 400, "KeyError")
    ELSE IF outcome = "BrokenProcessPool"
    THEN Internal(id, model, "killed in detect")
    ELSE CallFailed(id, model, outcome, "detect")

\* An entry is returned only by a cache that holds one and stored only
\* under a key, and audio_data that is not base64 is refused by
\* decode_audio at the latest when it decodes it (audio_io.py 237-245).
Reaches(q, m, key, stored) ==
    /\ m.hit => stored # {}
    /\ m.saved => key # {}
    /\ b64decode(q.audio_data) = {} /\ m.schema =>
          m.decode \in {DECODE_FAILED, FFMPEG_NOT_FOUND} \cup CallFailures

\* Mutant: the handler asks the governor before it looks into the cache.
FastPathAfterAdmission(m) == m.hit /\ ~m.full

\* Lines 344-369: the handler returns the cached entry before it calls
\* the governor.
FastPath(m) == m.hit

\* Mutant: the decoded request is cached before the detectors have run.
SavesAfterDecode(m) ==
    m.saved \/ (m.schema /\ ~m.hit /\ m.decode = "ok" /\ m.detect # "ok")

\* Lines 476-479: save_to_cache is reached after the decode, the three
\* detector calls and the validation of the response.
Saves(m) == m.saved

\* One request, from add_correlation_id through analyze_chords to the
\* response.  key is the cache key of the request ({} if line 339 raises)
\* and replays says whether a cached response keeps the id saved with it.
AnalyzeChordsWith(q, m, key, replays) ==
    LET id == nreq + 1
        model == Get(q.options, "basic")
        stored == IF key = {} THEN {} ELSE Stored(Get(key, 0))
        entry == Get(stored, [model_used |-> "", correlation_id |-> 0])
        fresh == Success(id, model, model, id, FALSE)
    IN  /\ nreq < MaxRequests
        /\ Reaches(q, m, key, stored)
        /\ nreq' = id
        /\ rseen' = IF m.schema /\ key # {}
                    THEN rseen \cup {[raw |-> b64decode(q.audio_data),
                                      format |-> q.format,
                                      key |-> Get(key, 0)]}
                    ELSE rseen
        /\ resp' =
              [(IF ~m.schema THEN Detail(id, model, 400, "schema")
                ELSE IF FastPath(m)
                THEN Success(id, model, entry.model_used,
                             IF replays THEN entry.correlation_id ELSE id,
                             TRUE)
                ELSE IF m.decode # "ok"
                THEN DecodeFailed(id, model, m.decode)
                ELSE IF m.detect # "ok"
                THEN DetectFailed(id, model, m.detect)
                ELSE IF ~m.valid THEN Detail(id, model, 500, "response")
                ELSE fresh)
               EXCEPT !.hit = m.hit, !.full = m.full,
                      !.governed = m.schema /\ ~FastPath(m)]
        /\ rstore' = IF Saves(m) /\ key # {}
                     THEN Save(Get(key, 0),
                               [model_used |-> model, correlation_id |-> id])
                     ELSE rstore

\* Lines 339-340: the key is the digest of the decoded bytes.
CacheKey(q) ==
    {compute_file_hash(n) : n \in b64decode(q.audio_data)}

\* A key that also depends on the declared format.
CacheKeyWithFormat(q) ==
    {compute_file_hash(n + (IF q.format = "wav" THEN 0 ELSE 3)) :
        n \in b64decode(q.audio_data)}

AnalyzeChordsKeyedByFormat(q, m) ==
    AnalyzeChordsWith(q, m, CacheKeyWithFormat(q), FALSE)

\* A cached response that keeps the correlation id saved with it.
AnalyzeChordsReplaysId(q, m) ==
    AnalyzeChordsWith(q, m, CacheKey(q), TRUE)

AnalyzeChords(q, m) ==
    AnalyzeChordsWith(q, m, CacheKey(q), FALSE)

\* get_from_cache, lines 106-110, and clean_cache: an entry goes from the
\* cache when it expires or is evicted.
Expire(key) ==
    /\ Stored(key) # {}
    /\ rstore' = {x \in rstore : x.key # key}
    /\ UNCHANGED <<nreq, rseen, resp>>

(***************************************************************************)
(* Part 8: the registry of detectors (analysis/registry.py lines 9-29).    *)
(***************************************************************************)

\* Number of calls made on the registry in one run of the model.
MaxRegCalls == 4

\* Detector names; the first is a prefix of the second.
DetectorNames == {"basic", "basic_chords", "advanced_chords"}

\* Detector objects.
Detectors == {"d1", "d2"}

NoRegCall == [op |-> "none", name |-> "", got |-> {}, raised |-> "",
              names |-> {}]

RegistryInit ==
    /\ detectors = <<>>
    /\ accepted = {}
    /\ regn = 0
    /\ regout = NoRegCall

\* `name in self._detectors`: a key of the dict equal to name.
Registered(name) == \E i \in 1..Len(detectors) : detectors[i].name = name

\* Whether t begins with s.
StartsWith(t, s) ==
    \/ t = s
    \/ s = "basic" /\ t = "basic_chords"

\* Mutant: the lookup takes the first key that begins with name.
LookupByPrefix(name) ==
    {detectors[i].detector :
        i \in {j \in 1..Len(detectors) :
                 /\ StartsWith(detectors[j].name, name)
                 /\ \A k \in 1..(j - 1) :
                        ~StartsWith(detectors[k].name, name)}}

\* self._detectors[name], or nothing if there is no such key.
Lookup(name) ==
    {detectors[i].detector :
        i \in {j \in 1..Len(detectors) : detectors[j].name = name}}

\* register, lines 15-19: ValueError for a name that is there already.
Register(name, detector) ==
    /\ regn < MaxRegCalls
    /\ regn' = regn + 1
    /\ IF Registered(name)
       THEN /\ regout' = [NoRegCall EXCEPT !.op = "register",
                                           !.name = name,
                                           !.raised = "ValueError"]
            /\ UNCHANGED <<detectors, accepted>>
       ELSE /\ detectors' =
                  Append(detectors, [name |-> name, detector |-> detector])
            /\ accepted' =
                  accepted \cup {[name |-> name, detector |-> detector]}
            /\ regout' = [NoRegCall EXCEPT !.op = "register",
                                           !.name = name]

\* get, lines 21-25: KeyError for a name that is not there.
RegistryGet(name) ==
    /\ regn < MaxRegCalls
    /\ regn' = regn + 1
    /\ regout' = IF Lookup(name) = {}
                 THEN [NoRegCall EXCEPT !.op = "get", !.name = name,
                                        !.raised = "KeyError"]
                 ELSE [NoRegCall EXCEPT !.op = "get", !.name = name,
                                        !.got = Lookup(name)]
    /\ UNCHANGED <<detectors, accepted>>

\* list_detectors, lines 27-29: the keys of the dict.
ListDetectors ==
    /\ regn < MaxRegCalls
    /\ regn' = regn + 1
    /\ regout' = [NoRegCall EXCEPT !.op = "list",
                     !.names = {detectors[i].name : i \in 1..Len(detectors)}]
    /\ UNCHANGED <<detectors, accepted>>

(***************************************************************************)
(* Part 9: the creation of the scratch file of decode_audio (security.py   *)
(* lines 57-78 and 113-163, audio_io.py line 234).                         *)
(***************************************************************************)

\* Longest declared format of the model.
MaxFormatLen == 3

\* The characters of a declared format: a letter, the dot, the path
\* separator and a character outside [a-zA-Z0-9_.-].
FormatChars == {"w", ".", "/", " "}

DeclaredFormats == SeqsUpTo(FormatChars, MaxFormatLen)

\* validate_filename, lines 57-78: no "..", no leading "/", and one or
\* more characters all of which are in [a-zA-Z0-9_.-].
validate_filename(f) ==
    /\ ~\E i \in 1..(Len(f) - 1) : f[i] = "." /\ f[i + 1] = "."
    /\ ~(Len(f) > 0 /\ f[1] = "/")
    /\ Len(f) > 0
    /\ \A i \in 1..Len(f) : f[i] \in {"w", "."}

\* tempfile.mkstemp opens os.path.join(dir, prefix + random + suffix) with
\* O_CREAT | O_EXCL and mode 0o600.  The random name is new, so a path
\* with a separator in the suffix leads through a directory that does not
\* exist and the open fails.
Mkstemp(suffix) ==
    IF \E i \in 1..Len(suffix) : suffix[i] = "/"
    THEN "FileNotFoundError" ELSE "created"

NoTempFile ==
    [format |-> <<>>, outcome |-> "none", dir |-> "", mode |-> ""]

ScratchInit ==
    /\ tmpdir = FALSE
    /\ tmpfile = NoTempFile

\* SecureTempFile(suffix=f".{format_type}").__enter__, lines 138-163, as
\* decode_audio enters it at audio_io.py line 234.  get_secure_temp_dir
\* (lines 113-132) creates TEMP_DIR if it is not there and falls back to
\* tempfile.gettempdir() if it cannot.
EnterSecureTempFile(format_type, mkdirFails) ==
    LET mkdir == ~tmpdir /\ ~mkdirFails
        dir == IF tmpdir \/ mkdir THEN "TEMP_DIR" ELSE "gettempdir"
        outcome == Mkstemp(<<".">> \o format_type)
    IN  /\ mkdirFails => ~tmpdir
        /\ tmpdir' = (tmpdir \/ mkdir)
        /\ tmpfile' = IF outcome = "created"
                      THEN [format |-> format_type, outcome |-> "created",
                            dir |-> dir, mode |-> "0o600"]
                      ELSE [NoTempFile EXCEPT !.format = format_type,
                                              !.outcome = outcome]

(***************************************************************************)
(* Specifications.  Each part is checked on its own, with the variables of *)
(* the other parts at rest.                                                *)
(***************************************************************************)

\* The variables of the parts other than the governor.
notGov ==
    <<poolVars, decVars, cacheVars, sweepVars, sharedVars,
      reqVars, regVars,
      tmpVars>>

\* The variables of the parts other than the pool.
notPool ==
    <<govVars, decVars, cacheVars, sweepVars, sharedVars,
      reqVars, regVars,
      tmpVars>>

\* The variables of the parts other than the decode pipeline.
notDecode ==
    <<govVars, poolVars, cacheVars, sweepVars, sharedVars,
      reqVars, regVars,
      tmpVars>>

\* The variables of the parts other than the cache.
notCache ==
    <<govVars, poolVars, decVars, sweepVars, sharedVars,
      reqVars, regVars,
      tmpVars>>

\* The variables of the parts other than the sweep.
notSweep ==
    <<govVars, poolVars, decVars, cacheVars, sharedVars,
      reqVars, regVars,
      tmpVars>>

\* The variables of the parts other than the shared cache file.
notShared ==
    <<govVars, poolVars, decVars, cacheVars, sweepVars, reqVars, regVars,
      tmpVars>>

\* The variables of the parts other than the request handler.
notRequest ==
    <<govVars, poolVars, decVars, cacheVars, sweepVars, sharedVars, regVars,
      tmpVars>>

\* The variables of the parts other than the scratch file.
notScratch ==
    <<govVars, poolVars, decVars, cacheVars, sweepVars, sharedVars, reqVars,
      regVars>>

\* The variables of the parts other than the registry.
notRegistry ==
    <<govVars, poolVars, decVars, cacheVars, sweepVars, sharedVars, reqVars,
      tmpVars>>

Next ==
    \/ \E p \in Calls : Arrive(p) /\ UNCHANGED notGov
    \/ \E p \in Calls : QueueTimeout(p) /\ UNCHANGED notGov
    \/ \E p \in Calls : LateTimeout(p) /\ UNCHANGED notGov
    \/ \E p \in Calls : Resume(p) /\ UNCHANGED notGov
    \/ \E p \in Calls : Return(p) /\ UNCHANGED notGov
    \/ \E p \in Calls : RunTimeout(p) /\ UNCHANGED notGov
    \/ \E p \in Calls : WorkerStart(p) /\ UNCHANGED notGov
    \/ \E p \in Calls : WorkerFinish(p) /\ UNCHANGED notGov
    \/ \E p \in Calls : DispatchFail(p) /\ UNCHANGED notGov

\* Every part in its initial state.
AllInit ==
    /\ Init /\ PoolInit /\ DecodeInit /\ CacheInit /\ SweepInit
    /\ SharedInit /\ RequestInit /\ RegistryInit /\ ScratchInit

Spec == AllInit /\ [][Next]_vars

\* The scheduling the event loop guarantees: a REQUEST_TIMEOUT timer that
\* stays armed fires, a scheduled coroutine is resumed, and a result that
\* has arrived is delivered.  Nothing makes a worker finish its task.
SpecLive ==
    /\ Spec
    /\ \A p \in Calls :
          /\ WF_vars(QueueTimeout(p) /\ UNCHANGED notGov)
          /\ WF_vars(RunTimeout(p) /\ UNCHANGED notGov)
          /\ WF_vars(Resume(p) /\ UNCHANGED notGov)
          /\ WF_vars(Return(p) /\ UNCHANGED notGov)

PoolNext ==
    \/ \E k \in Kinds : PoolDispatch(k) /\ UNCHANGED notPool
    \/ \E w \in Procs : SpawnWorker(w) /\ UNCHANGED notPool
    \/ \E w \in Procs : WorkerTake(w) /\ UNCHANGED notPool
    \/ \E w \in Procs : WorkerDone(w) /\ UNCHANGED notPool

SpecPool == AllInit /\ [][PoolNext]_vars

DecodeNext ==
    \/ \E s \in Payloads, f \in Formats :
          DecodeAudio(s, f) /\ UNCHANGED notDecode
    \/ \E found \in BOOLEAN : CheckFfmpeg(found) /\ UNCHANGED notDecode
    \/ EnterInputFile /\ UNCHANGED notDecode
    \/ ScratchFails /\ UNCHANGED notDecode
    \/ DecodeBase64 /\ UNCHANGED notDecode
    \/ EnterNormalize /\ UNCHANGED notDecode
    \/ \E m \in Mimes : Sniff(m) /\ UNCHANGED notDecode
    \/ \E o \in ProbeOutcomes : Probe(o) /\ UNCHANGED notDecode
    \/ Popen /\ UNCHANGED notDecode
    \/ FfmpegOpensOutput /\ UNCHANGED notDecode
    \/ \E status \in {0, 1} : FfmpegExits(status) /\ UNCHANGED notDecode
    \/ Communicate /\ UNCHANGED notDecode
    \/ \E readable \in BOOLEAN : Load(readable) /\ UNCHANGED notDecode
    \/ Alarm /\ UNCHANGED notDecode
    \/ ExitNormalize /\ UNCHANGED notDecode
    \/ ExitInputFile /\ UNCHANGED notDecode

SpecDecode == AllInit /\ [][DecodeNext]_vars

CacheNext ==
    \/ \E available \in BOOLEAN :
          ImportCache(available) /\ UNCHANGED notCache
    \/ Tick /\ UNCHANGED notCache
    \/ \E k \in Keys, redisRaises \in BOOLEAN :
          GetFromCache(k, redisRaises) /\ UNCHANGED notCache
    \/ \E k \in Keys, v \in Values, redisRaises \in BOOLEAN,
          opens \in BOOLEAN, wrote \in Written :
          SaveToCache(k, v, redisRaises, opens, wrote) /\ UNCHANGED notCache

SpecCache == AllInit /\ [][CacheNext]_vars

SweepNext ==
    \/ \E p \in Paths, size \in Sizes :
          SweepWrite(p, size) /\ UNCHANGED notSweep
    \/ SweepTick /\ UNCHANGED notSweep
    \/ \E stuck \in SUBSET Present(sdir), sorted \in SweepLists :
          CleanCache(stuck, sorted) /\ UNCHANGED notSweep

SpecSweep == AllInit /\ [][SweepNext]_vars

SharedNext ==
    \/ \E w \in Writers, v \in Values :
          SharedOpen(w, v) /\ UNCHANGED notShared
    \/ \E w \in Writers : SharedWrite(w) /\ UNCHANGED notShared
    \/ \E w \in Writers : SharedClose(w) /\ UNCHANGED notShared
    \/ SharedGet /\ UNCHANGED notShared
    \/ SharedUnlink /\ UNCHANGED notShared

SpecShared == AllInit /\ [][SharedNext]_vars

RequestNext ==
    \/ \E q \in Requests, m \in Meets :
          AnalyzeChords(q, m) /\ UNCHANGED notRequest
    \/ \E e \in rstore : Expire(e.key) /\ UNCHANGED notRequest

SpecRequest == AllInit /\ [][RequestNext]_vars

RegistryNext ==
    \/ \E n \in DetectorNames, d \in Detectors :
          Register(n, d) /\ UNCHANGED notRegistry
    \/ \E n \in DetectorNames : RegistryGet(n) /\ UNCHANGED notRegistry
    \/ ListDetectors /\ UNCHANGED notRegistry

SpecRegistry == AllInit /\ [][RegistryNext]_vars

ScratchNext ==
    \E f \in DeclaredFormats, mkdirFails \in BOOLEAN :
        EnterSecureTempFile(f, mkdirFails) /\ UNCHANGED notScratch

SpecScratch == AllInit /\ [][ScratchNext]_vars

(***************************************************************************)
(* Claims about the admission governor.                                    *)
(***************************************************************************)

\* Waiters that can still be admitted: blocked in the queue, or woken by a
\* release and not yet resumed.
LiveWaiters == {p \in Calls : pc[p] \in {"queued", "woken"}}

\* Waiters whose wait ended with the REQUEST_TIMEOUT timer.
TimedOutWaiters ==
    {p \in Calls : pc[p] \in {"expired", "woken_expired", "rejected_timeout"}}

\* C1: in every reachable state the number of jobs admitted and not yet
\* released, _active_requests, is at most MAX_CONCURRENT.
C1_ActiveBounded == active <= MAX_CONCURRENT

\* C2: no permit leaks: once every call has returned or raised (task
\* success, task exception, run timeout, rejection), _active_requests is 0
\* and the wait queue is empty.
C2_NoPermitLeak ==
    (\A p \in Calls : pc[p] \in Terminal) => (active = 0 /\ queue = <<>>)

C2_Witness ==
    /\ \A p \in Calls : pc[p] \in Terminal
    /\ \E p \in Calls : pc[p] = "returned"
    /\ \E p \in Calls : pc[p] = "failed"
    /\ \E p \in Calls : pc[p] = "timed_out"

\* C3: when a job completes while waiters are queued, the waiter it wakes
\* is the head of the queue and is live: the release never spends its
\* wake-up on a waiter that has already timed out.
C3_ReleaseWakesLiveHead ==
    [][\A p \in Calls :
          (pc[p] = "running" /\ pc'[p] \in Terminal /\ queue # <<>>)
              => /\ fut[Head(queue)] = "pending"
                 /\ pc'[Head(queue)] = "woken"
                 /\ pc'[p] # "invalid_state"]_vars

\* C4: a call that arrives while _active_requests >= MAX_CONCURRENT and the
\* queue holds MAX_QUEUE_SIZE waiters is rejected at once: it is not
\* enqueued, does not suspend, and leaves the active count and the queue
\* unchanged.
C4_FullQueueRejects ==
    [][\A p \in Calls :
          (/\ pc[p] = "idle"
           /\ pc'[p] # "idle"
           /\ active >= MAX_CONCURRENT
           /\ Len(queue) >= MAX_QUEUE_SIZE)
              => /\ pc'[p] = "rejected_full"
                 /\ active' = active
                 /\ queue' = queue
                 /\ fut'[p] = "none"]_vars

C4_Witness ==
    \E p \in Calls :
        /\ pc[p] = "rejected_full"
        /\ active >= MAX_CONCURRENT
        /\ Len(queue) = MAX_QUEUE_SIZE

\* No job has completed and no timer has fired since the first arrival.
NothingCompleted ==
    \A p \in Calls : pc[p] \in {"idle", "running", "queued", "rejected_full"}

\* C5: for simultaneous admits with no job completing in between, in
\* arrival order the first MAX_CONCURRENT proceed, the next MAX_QUEUE_SIZE
\* are queued and all the remaining ones are rejected.
C5_ArrivalOutcomes ==
    NothingCompleted =>
        \A p \in Calls :
            pc[p] # "idle" =>
                pc[p] = IF p <= MAX_CONCURRENT THEN "running"
                        ELSE IF p <= MAX_CONCURRENT + MAX_QUEUE_SIZE
                             THEN "queued"
                             ELSE "rejected_full"

C5_Witness ==
    /\ NothingCompleted
    /\ NumCalls > MAX_CONCURRENT + MAX_QUEUE_SIZE
    /\ pc[NumCalls] = "rejected_full"

\* C6: every queued waiter gets exactly one terminal admission outcome: a
\* waiter whose wait timed out is rejected, is never admitted afterwards,
\* never increments the active count and never has its task run; an
\* admitted waiter is never also rejected for queue timeout.
C6_OneOutcomePerWaiter ==
    /\ [](\A p \in TimedOutWaiters : task[p] = "none")
    /\ [][\A p \in Calls :
             /\ p \in TimedOutWaiters =>
                    /\ pc'[p] \in {pc[p], "rejected_timeout"}
                    /\ (pc'[p] # pc[p] => active' = active)
             /\ pc[p] \in {"running", "returned", "failed", "timed_out",
                           "invalid_state"} =>
                    pc'[p] \notin {"expired", "woken_expired",
                                   "rejected_timeout"}]_vars

C6_Witness ==
    \E p, q \in Calls :
        /\ pc[p] = "rejected_timeout"
        /\ fut[q] = "result"
        /\ pc[q] = "running"

\* C7: wait-queue service is strictly FIFO: waiters are admitted in the
\* order they were enqueued, and a newly arriving call is never admitted
\* ahead of a waiter that is still queued or woken but not yet resumed.
C7_StrictFifo ==
    [][\A p \in Calls :
          (pc[p] \in {"idle", "woken"} /\ pc'[p] = "running")
              => \A q \in LiveWaiters \ {p} : pc[p] = "woken" /\ p < q]_vars

\* C8: a queued waiter that times out consumes no permit: its own steps
\* leave _active_requests unchanged and, once it has raised ServerBusy, its
\* future is no longer in the wait queue.
C8_TimedOutWaiterHoldsNothing ==
    /\ [](\A p \in Calls :
             pc[p] = "rejected_timeout" => p \notin Range(queue))
    /\ [][\A p \in Calls :
             (/\ pc'[p] # pc[p]
              /\ pc'[p] \in {"queued", "expired", "woken_expired",
                             "rejected_timeout"})
                 => active' = active]_vars

C8_Witness ==
    \E p, q \in Calls :
        /\ pc[p] = "rejected_timeout"
        /\ fut[p] = "cancelled"
        /\ pc[q] = "queued"
        /\ active = MAX_CONCURRENT

\* C9: in every reachable state the wait queue holds at most
\* MAX_QUEUE_SIZE futures.
C9_QueueBounded == Len(queue) <= MAX_QUEUE_SIZE

C9_Witness ==
    /\ Len(queue) = MAX_QUEUE_SIZE
    /\ \E p \in Range(queue) : fut[p] = "cancelled"

\* C10: once a running job that exceeded REQUEST_TIMEOUT has released its
\* permit, its task is no longer executing in a pool worker, so the number
\* of tasks executing in workers never exceeds the number of held permits.
C10_TimedOutTaskTerminated ==
    /\ \A p \in Calls : pc[p] = "timed_out" => task[p] # "executing"
    /\ Cardinality(Executing) <= active

\* C11 (first half): every call that has arrived eventually returns or
\* raises, whether or not any task ever completes.
C11_EveryCallEnds ==
    \A p \in Calls : (pc[p] # "idle") ~> (pc[p] \in Terminal)

\* C11: no unbounded hang: every call eventually returns or raises, and a
\* call whose task has not completed when it ends ends with TimeoutError.
C11_HungTaskBecomesTimeout ==
    /\ C11_EveryCallEnds
    /\ [][\A p \in Calls :
             (/\ pc[p] = "running"
              /\ task[p] \in {"pending", "executing"}
              /\ pc'[p] \in Terminal)
                 => pc'[p] = "timed_out"]_vars

(***************************************************************************)
(* Claims about the process pool.                                          *)
(***************************************************************************)

\* C12: no task body runs in a pool worker whose resource limits (memory,
\* CPU time, file descriptors) have not all been applied successfully.
C12_LimitsBeforeTask ==
    \A w \in Procs : wrun[w] # "idle" => wlim[w] = Limits

\* C13: the pool is created on the first dispatch and only then, every
\* later dispatch reuses it, and there are never more than MAX_WORKERS
\* worker processes however many work items are outstanding.
C13_OnePoolBoundedWorkers ==
    /\ npools = IF dispatched = 0 THEN 0 ELSE 1
    /\ npools = 0 => Workers = {}
    /\ Cardinality(Workers) <= MAX_WORKERS

C13_Witness ==
    /\ dispatched > MAX_WORKERS
    /\ Cardinality(Workers) = MAX_WORKERS
    /\ \A w \in Workers : wrun[w] # "idle"
    /\ callq # <<>>

(***************************************************************************)
(* Claims about the decode pipeline.                                       *)
(***************************************************************************)

\* What the probe reported, when it reported.
Reported == CHOOSE r \in info : TRUE

\* C14: an input whose probed size or probed duration exceeds its limit is
\* never transcoded, and its decode ends with FILE_TOO_LARGE (size over the
\* limit) or DURATION_TOO_LONG (size within, duration over the limit).
C14_ProbePrecedesTranscode ==
    (info # {} /\ (TooLarge(Reported) \/ TooLong(Reported))) =>
        /\ "transcode" \notin invoked
        /\ ff = "none"
        /\ result = IF TooLarge(Reported) THEN FILE_TOO_LARGE
                    ELSE DURATION_TOO_LONG

\* The 600 MB input of the limit of 100 MB has been rejected.
C14_Witness ==
    /\ dpc = "done"
    /\ info # {}
    /\ Reported.size = {600 * 1024 * 1024}
    /\ result = FILE_TOO_LARGE
    /\ invoked = {"sniff", "probe"}

C16_NoScratchFileAfterExit == dpc = "done" => files = {}

\* C17: with the decoder binary absent the call ends with FFMPEG_NOT_FOUND
\* and has created no scratch file and started no sniff, probe or
\* transcode.
C17_DecoderMissingFirst ==
    ffmpeg = "absent" =>
        /\ dpc = "done"
        /\ result = FFMPEG_NOT_FOUND
        /\ made = {}
        /\ files = {}
        /\ invoked = {}
        /\ ff = "none"

C17_Witness ==
    /\ ffmpeg = "absent"
    /\ dpc = "done"
    /\ result = FFMPEG_NOT_FOUND
    /\ b64decode(payload) # {}

\* Canonical base64 text: alphabet characters only, in whole quads, of
\* which the last may end in one or two pad characters.
ValidBase64(s) ==
    /\ Len(s) % 4 = 0
    /\ \A i \in 1..Len(s) :
          \/ s[i] = "a"
          \/ /\ s[i] = "="
             /\ i > Len(s) - 2
             /\ \A j \in i..Len(s) : s[j] = "="

\* The failure codes other than an invalid-base64 code of its own.
OtherCodes ==
    {DECODE_FAILED, TIMEOUT, FILE_TOO_LARGE, DURATION_TOO_LONG,
     UNSUPPORTED_FORMAT, FFMPEG_NOT_FOUND, INVALID_FILE_TYPE}

\* C18: a payload that is not valid base64 ends with a failure code of its
\* own, distinct from every other code, and no scratch file was created
\* for it.
C18_InvalidBase64First ==
    (dpc = "done" /\ ~ValidBase64(payload)) =>
        /\ result \notin OtherCodes \cup {"ok"}
        /\ made = {}

\* C19: samples are returned only if the sniff accepted the type, the
\* probe reported a size and a duration, both within their limits, and the
\* transcode exited with status 0.
C19_FailClosed ==
    result = "ok" =>
        /\ mime # {} /\ mime \subseteq ALLOWED_AUDIO_MIME_TYPES
        /\ info # {}
        /\ Reported.size # {} /\ ~TooLarge(Reported)
        /\ Reported.duration # {} /\ ~TooLong(Reported)
        /\ rc = {0}

(***************************************************************************)
(* Claims about the result cache.                                          *)
(***************************************************************************)

\* C20: a get that directly follows a successful put of v under the same
\* key, less than the TTL later, returns exactly v.
C20_GetAfterPut ==
    (/\ prev.op = "put" /\ prev.ok
     /\ last.op = "get" /\ last.key = prev.key
     /\ last.at - prev.at < DEFAULT_CACHE_TTL)
        => last.val = prev.val

AfterExpiry == Present(slog.before) \ slog.expired

\* C22: the capacity loop of a sweep never removes a file while a file
\* with an older write time is still in the directory, also when an unlink
\* has failed.
C22_OldestFirst ==
    slog.swept =>
        \A i \in 1..Len(slog.evicted) :
            \A p \in AfterExpiry \ {slog.evicted[j] : j \in 1..(i - 1)} :
                Mtime(slog.before, p) >=
                    Mtime(slog.before, slog.evicted[i])

\* What the sweep that has just returned removed.
Removed == Present(slog.before) \ Present(sdir)

\* The reference sweep of the directory d at time t: the expired files,
\* and of the others, oldest first in the arrangement q, the fewest whose
\* removal brings the total size down to the cap.
RefKeep(d, t) == Present(d) \ ExpiredAt(d, t)
RefFirst(q, n) == {q[i] : i \in 1..n}
RefFits(d, t, q, n) ==
    SumSizes(d, RefKeep(d, t) \ RefFirst(q, n)) <= MAX_CACHE_SIZE
RefCount(d, t, q) ==
    CHOOSE n \in 0..Len(q) :
        /\ RefFits(d, t, q, n)
        /\ \A m \in 0..(n - 1) : ~RefFits(d, t, q, m)
RefSweeps(d, t) ==
    {ExpiredAt(d, t) \cup RefFirst(q, RefCount(d, t, q)) :
        q \in SortedLists(d, RefKeep(d, t))}

\* What C23 says of the sweep that has just returned.
SweepAsReference ==
    /\ Removed \in RefSweeps(slog.before, slog.at)
    /\ ExpiredAt(sdir, slog.at) = {}
    /\ SumSizes(sdir, Present(sdir)) <= MAX_CACHE_SIZE
    /\ (/\ ExpiredAt(slog.before, slog.at) = {}
        /\ SumSizes(slog.before, Present(slog.before)) <= MAX_CACHE_SIZE)
           => Removed = {}

FileAnswer(k) ==
    IF cfile[k] = {} THEN {}
    ELSE LET f == CHOOSE e \in cfile[k] : TRUE
         IN  IF now - f.mtime > DEFAULT_CACHE_TTL THEN {} ELSE Loads(f.text)

\* C25: the accelerator never fails a cache operation.  A get on which
\* Redis raises returns the file tier's answer.  Every put, whatever Redis
\* did, writes the file if it can be opened, and reports exactly whether
\* that write was completed.
C25_AcceleratorNeverFails ==
    [][nops' = nops + 1 =>
          /\ (last'.op = "get" /\ last'.redisRaised)
                => last'.val = FileAnswer(last'.key)
          /\ last'.op = "put" =>
                LET k == last'.key
                    text == Dumps(CHOOSE v \in last'.val : TRUE)
                IN  /\ last'.opened =>
                          cfile'[k] = {[text |-> Prefix(text, last'.wrote),
                                        mtime |-> now]}
                    /\ ~last'.opened => cfile'[k] = cfile[k]
                    /\ last'.ok <=>
                          (last'.opened /\ last'.wrote = Len(text))
      ]_cacheVars

\* Redis raised on a put and on the get after it; the put succeeded and
\* the get returned its value.
C25_Witness ==
    /\ prev.op = "put" /\ prev.redisRaised /\ prev.ok
    /\ last.op = "get" /\ last.redisRaised /\ last.key = prev.key
    /\ last.val = prev.val

\* C26: once puts of v1 and then of v2 under a key have both succeeded, a
\* later get of the key within the TTL of the second put, with no put on
\* the key in between, returns v2, whatever Redis did in each call.
C26_LastWriteWins ==
    last.op = "get" =>
        \A e \in putOk[last.key] :
            (/\ e.latest
             /\ e.over # {} /\ e.over # {e.val}
             /\ last.at - e.at <= DEFAULT_CACHE_TTL)
                => last.val = {e.val}

(***************************************************************************)
(* Claims about the shared cache file.                                     *)
(***************************************************************************)

\* C27: whatever the processes sharing the cache directory do, a get
\* returns none or one complete value that was put for the key before.
C27_NoTornRead == shgot \subseteq shputs

(***************************************************************************)
(* Claims about the requests to analyze_chords.                            *)
(***************************************************************************)

\* C24: the cache key is a function of the raw bytes alone.  Any two
\* requests with the same decoded bytes were given the same key, whatever
\* their audio_data text, declared format and options were.
C24_KeyFromBytesOnly ==
    \A r1 \in rseen, r2 \in rseen : r1.raw = r2.raw => r1.key = r2.key

\* The same bytes were declared as two formats and keyed alike, and a
\* request for the advanced model has just been served the entry that a
\* request for the basic model stored under its key.
C24_Witness ==
    /\ \E r1 \in rseen, r2 \in rseen :
          r1.raw = r2.raw /\ r1.format # r2.format /\ r1.key = r2.key
    /\ resp.cached /\ resp.model = "advanced"
    /\ resp.model_used = {"basic"}

\* The failures the request or a resource limit of a worker causes: bad
\* encoding, wrong type, too large, too long, worker killed at its limit.
InputOrLimit ==
    {DECODE_FAILED, INVALID_FILE_TYPE, FILE_TOO_LARGE, DURATION_TOO_LONG,
     "killed in decode", "killed in detect"}

\* C28: a request that fails because of its input or of a resource limit
\* is answered with a body that has error_code, message and the request's
\* correlation_id.
C28_FailuresCarryErrorCode ==
    resp.cause \in InputOrLimit =>
        /\ resp.error_code # {}
        /\ resp.message
        /\ resp.correlation_id = {resp.id}

\* C29: a successful response to a request with options.model = "advanced"
\* reports model_used = "advanced", whatever requests came before.
C29_AdvancedReportsAdvanced ==
    resp.status = 200 /\ resp.model = "advanced" =>
        resp.model_used = {"advanced"}

\* C30: a successful response, cached or fresh, has the id generated for
\* its request both in the X-Correlation-ID header and in the body.
C30_CorrelationIdIsOwn ==
    resp.status = 200 =>
        /\ resp.header = {resp.id}
        /\ resp.correlation_id = {resp.id}

\* A response served from an entry that an earlier request stored with its
\* own id.
C30_Witness ==
    /\ resp.status = 200 /\ resp.cached
    /\ \E e \in rstore : e.data.correlation_id < resp.id
    /\ resp.correlation_id = {resp.id}

(***************************************************************************)
(* Further claims about the governor.                                      *)
(***************************************************************************)

\* C37: the governor is work-conserving.  When no woken waiter is still
\* pending resumption, a non-empty wait queue implies that every permit is
\* taken.
C37_WorkConserving ==
    (\A p \in Calls : pc[p] \notin {"woken", "woken_expired"})
        /\ queue # <<>>
    => active = MAX_CONCURRENT

\* C38: permit accounting is exact.  _active_requests is never negative and
\* equals the number of calls between their admission increment and their
\* release in the finally block.
C38_ExactAccounting ==
    /\ active >= 0
    /\ active = Cardinality({p \in Calls : pc[p] = "running"})

\* Calls have ended by return, by exception and by run timeout, and the
\* counter stands above MAX_CONCURRENT with that many calls running.
C38_Witness ==
    /\ active > MAX_CONCURRENT
    /\ \E p \in Calls : pc[p] \in {"returned", "failed", "timed_out"}
    /\ Cardinality({p \in Calls : pc[p] = "running"}) = active

(***************************************************************************)
(* Further claims about the requests to analyze_chords.                    *)
(***************************************************************************)

\* C32: a request whose model option is neither "basic" nor "advanced" is
\* rejected or processed with a fallback model; a successful response to it
\* reports the model used, "basic" or "advanced", never the option's value.
C32_UnknownModelFallsBack ==
    resp.status = 200 /\ resp.model \notin {"basic", "advanced"} =>
        resp.model_used \subseteq {"basic", "advanced"}

\* C33: the cache fast path precedes admission.  A request for which the
\* cache returns an entry is answered from it without a call to the
\* governor, also while the governor is at capacity with a full queue.
C33_FastPathBeforeAdmission ==
    resp.hit => /\ ~resp.governed
                /\ resp.status = 200 /\ resp.cached

\* A request served from the cache while the governor would have rejected
\* its call.
C33_Witness ==
    resp.hit /\ resp.full /\ resp.status = 200 /\ ~resp.governed

\* C34: a governor rejection is answered with status 503, error_code
\* SERVER_BUSY and a Retry-After header of 30 for a waiter that timed out
\* in the queue and of 60 for a call rejected at a full queue.
C34_RejectionRetryAfter ==
    resp.cause \in Rejections =>
        /\ resp.status = 503
        /\ resp.error_code = {"SERVER_BUSY"}
        /\ resp.retry_after =
              {IF resp.cause = "rejected_timeout" THEN 30 ELSE 60}

\* A waiter that timed out in the queue was answered with Retry-After 30.
C34_Witness ==
    resp.cause = "rejected_timeout" /\ resp.retry_after = {30}

C31_ExactLookup ==
    /\ regout.op = "get" =>
          /\ regout.got =
                {a.detector : a \in {x \in accepted : x.name = regout.name}}
          /\ regout.raised = (IF regout.got = {} THEN "KeyError" ELSE "")
          /\ Cardinality(regout.got) <= 1
    /\ regout.op = "list" => regout.names = {a.name : a \in accepted}

\* "basic_chords" is registered and "basic" is not: get("basic") raised
\* KeyError.
C31_Witness ==
    /\ regout.op = "get" /\ regout.name = "basic"
    /\ regout.raised = "KeyError"
    /\ \E a \in accepted : a.name = "basic_chords"

(***************************************************************************)
(* Claims about the scratch file.                                          *)
(***************************************************************************)

\* C35: every scratch file is created inside the dedicated scratch
\* directory with owner-only permissions, and a declared format that is
\* not a valid filename part is rejected before any file is created.
C35_ScratchFileConfined ==
    /\ tmpfile.outcome = "created" =>
          tmpfile.dir = "TEMP_DIR" /\ tmpfile.mode = "0o600"
    /\ tmpfile.outcome # "none" /\ tmpfile.format # <<>>
          /\ ~validate_filename(tmpfile.format) =>
          tmpfile.outcome = "rejected"

(***************************************************************************)
(* Further claims about the decode pipeline.                               *)
(***************************************************************************)

\* C36: decoder failures are first-class values.  A call that fails after
\* the decoder was found raises AudioDecodingException with one of the
\* defined codes: DECODING_ERROR once communicate() has seen a nonzero
\* exit, and never another exception type.
C36_FailuresAreCodes ==
    dpc = "done" /\ ffmpeg = "found" /\ result # "ok" =>
        /\ result \in {DECODE_FAILED, TIMEOUT, FILE_TOO_LARGE,
                        DURATION_TOO_LONG, UNSUPPORTED_FORMAT,
                        FFMPEG_NOT_FOUND, INVALID_FILE_TYPE}
        /\ (rc # {} /\ rc # {0}) => result \in {DECODE_FAILED, TIMEOUT}

(***************************************************************************)
(* Further claims about the cache.                                         *)
(***************************************************************************)

\* C39: a put that fails leaves the cache unchanged for its key.  What a
\* get of the key returns right after a put that returned False is what it
\* would have returned right before: the value held, or none.
C39_FailedPutChangesNothing ==
    [][ \A k \in Keys :
          (nops' = nops + 1 /\ last'.op = "put" /\ last'.key = k
              /\ ~last'.ok)
          => GetResult(k, FALSE)' = GetResult(k, FALSE)
      ]_cacheVars

==============================================================================
